---------------------------- MODULE Spec2Model ----------------------------
(***************************************************************************)
(* Model of the SSE stream multiplexer of src/ShadowFunction/__init__.py:  *)
(* the endpoint shadow_sk, the generator event_stream, its consumption     *)
(* loop stream_events, the producer task agent_stream_task and the         *)
(* callback handle_streaming_intermediate_steps.                           *)
(*                                                                         *)
(* One request is followed from its arrival to the end of its response.    *)
(* The remote assistant (agent.invoke_stream) is an opaque upstream: at    *)
(* each step it may deliver a response chunk, fire the intermediate-       *)
(* message callback, end, raise, or stay silent.  asyncio runs the         *)
(* coroutines on one event loop, so a coroutine runs without interruption  *)
(* from one suspension point to the next; each action below is one such    *)
(* run.  event_queue is unbounded, so "await event_queue.put" never        *)
(* suspends.                                                               *)
(***************************************************************************)
EXTENDS Integers, Sequences, FiniteSets, TLC

VARIABLES
    request,          \* the POST body: [valid, query, threadId]
    http,             \* what shadow_sk answered: "none", "422" or "200"
    agent,            \* result of get_agent(): "unset", "agent" or "None"
    current_thread,   \* thread handed to invoke_stream: "None" or a thread id
    event_queue,      \* asyncio.Queue of (event_type, event_data)
    first_chunk,      \* nonlocal flag of stream_events
    stream_finished,  \* nonlocal flag of stream_events
    ppc,              \* agent_stream_task: "none", "created", "running", "done",
                      \* "cancelled", "failed" (ended with an exception)
    cpc,              \* event_stream / stream_events: where the generator is suspended
    cur,              \* the (event_type, event_data) taken by the last queue get
    out,              \* the lines yielded to the transport so far
    connected,        \* the client is still reading the response
    upstream,         \* history: what the assistant has sent so far
    enqueued,         \* history: every envelope ever put on event_queue
    unit              \* a call made outside a request: a tool call or an item probe

vars == <<request, http, agent, current_thread, event_queue, first_chunk,
          stream_finished, ppc, cpc, cur, out, connected, upstream, enqueued, unit>>

\* what the actions of a request leave alone
auxVars == <<unit>>

---------------------------------------------------------------------------
(* Bounds of the model *)

\* number of upstream events (chunks and callback notifications) per request
MaxUp == 2

---------------------------------------------------------------------------
(* Python values carried as function-call arguments or function results.   *)
(* ty: the Python type; truthy: bool(v); json: json.dumps(v) succeeds;     *)
(* strOk: str(v) returns (FALSE: __str__ raises); id: which value it is.   *)

PyVal(ty, truthy, json, strOk, id) ==
    [ty |-> ty, truthy |-> truthy, json |-> json, strOk |-> strOk, id |-> id]

NoVal      == PyVal("absent", FALSE, TRUE, TRUE, "")
TextVal    == PyVal("str", TRUE, TRUE, TRUE, "text")
DictVal    == PyVal("dict", TRUE, TRUE, TRUE, "{k: v}")
NoneVal    == PyVal("NoneType", FALSE, TRUE, TRUE, "None")
ObjVal     == PyVal("object", TRUE, FALSE, TRUE, "obj")
BadStrVal  == PyVal("object", TRUE, FALSE, FALSE, "badobj")
ListObjVal == PyVal("list", TRUE, FALSE, TRUE, "[obj]")
ZeroVal      == PyVal("int", FALSE, TRUE, TRUE, "0")
EmptyListVal == PyVal("list", FALSE, TRUE, TRUE, "[]")
FalsyBadVal  == PyVal("object", FALSE, FALSE, FALSE, "falsy badobj")
ListBadVal   == PyVal("list", TRUE, FALSE, FALSE, "[badobj]")

\* str(v), defined when v.strOk
PyStr(v) == IF v.ty = "str" THEN v
            ELSE PyVal("str", TRUE, TRUE, TRUE, "str(" \o v.id \o ")")

---------------------------------------------------------------------------
(* Text: a Python str as a sequence of one-character strings *)

Whitespace == {" ", "\n", "\t"}

RECURSIVE LStrip(_)
LStrip(s) == IF s # <<>> /\ Head(s) \in Whitespace THEN LStrip(Tail(s)) ELSE s

RECURSIVE RStrip(_)
RStrip(s) == IF s # <<>> /\ s[Len(s)] \in Whitespace
             THEN RStrip(SubSeq(s, 1, Len(s) - 1)) ELSE s

\* str.strip()
Strip(s) == RStrip(LStrip(s))

---------------------------------------------------------------------------
(* Envelopes: event_data dictionaries.  keys is the set of dictionary keys; *)
(* the other fields hold the values of the keys that are present.           *)

Envelope(keys, type, fname, val, content, info) ==
    [keys |-> keys, type |-> type, fname |-> fname, val |-> val,
     content |-> content, info |-> info]

ThreadInfoData(name, tid) ==
    Envelope({"type", "agent_name", "thread_id"}, "thread_info", name, NoVal, <<>>, tid)
FunctionCallData(name, arguments) ==
    Envelope({"type", "function_name", "arguments"}, "function_call", name, arguments, <<>>, "")
FunctionResultData(name, result) ==
    Envelope({"type", "function_name", "result"}, "function_result", name, result, <<>>, "")
IntermediateData(text) ==
    Envelope({"type", "content"}, "intermediate", "", NoVal, <<>>, text)
IntermediateErrorData(err, item_type) ==
    Envelope({"type", "error", "item_type"}, "intermediate_error", item_type, NoVal, <<>>, err)
ContentData(content) ==
    Envelope({"type", "content"}, "content", "", NoVal, content, "")
StreamCompleteData ==
    Envelope({"type"}, "stream_complete", "", NoVal, <<>>, "")
ErrorData(err) ==
    Envelope({"type", "error"}, "error", "", NoVal, <<>>, err)

\* a queue entry: the tuple (event_type, event_data)
Event(data) == [etype |-> data.type, data |-> data]

NoEvent == [etype |-> "", data |-> Envelope({}, "", "", NoVal, <<>>, "")]

\* json.dumps(event_data) returns (FALSE: it raises TypeError)
JsonOk(data) == data.val.json

---------------------------------------------------------------------------
(* Items of a message or of a response chunk *)

Item(cls, name, val, strOk) == [cls |-> cls, name |-> name, val |-> val, strOk |-> strOk]

FunctionCallContent(arguments)   == Item("FunctionCallContent", "get_sales_docs", arguments, TRUE)
FunctionResultContent(result)    == Item("FunctionResultContent", "get_sales_docs", result, TRUE)
TextContent                      == Item("TextContent", "", NoVal, TRUE)
BadTextContent                   == Item("TextContent", "", NoVal, FALSE)

\* "if arguments and not isinstance(arguments, (str, dict)): arguments = str(arguments)"
\* [raised, val]
CoerceArguments(arguments) ==
    IF arguments.truthy /\ arguments.ty \notin {"str", "dict"}
    THEN IF arguments.strOk THEN [raised |-> FALSE, val |-> PyStr(arguments)]
                            ELSE [raised |-> TRUE, val |-> arguments]
    ELSE [raised |-> FALSE, val |-> arguments]

JsonTypes == {"str", "int", "float", "bool", "list", "dict", "NoneType"}

\* "if not isinstance(result, (str, int, float, bool, list, dict, type(None))): result = str(result)"
CoerceResult(result) ==
    IF result.ty \notin JsonTypes
    THEN IF result.strOk THEN [raised |-> FALSE, val |-> PyStr(result)]
                         ELSE [raised |-> TRUE, val |-> result]
    ELSE [raised |-> FALSE, val |-> result]

StrRaised == "__str__ raised"

\* handle_streaming_intermediate_steps: the envelope put for one item
BridgeItem(item) ==
    IF item.cls = "FunctionCallContent"
    THEN LET c == CoerceArguments(item.val)
         IN  IF c.raised THEN IntermediateErrorData(StrRaised, item.cls)
                         ELSE FunctionCallData(item.name, c.val)
    ELSE IF item.cls = "FunctionResultContent"
    THEN LET c == CoerceResult(item.val)
         IN  IF c.raised THEN IntermediateErrorData(StrRaised, item.cls)
                         ELSE FunctionResultData(item.name, c.val)
    ELSE IF item.strOk THEN IntermediateData("str(item)")
                       ELSE IntermediateErrorData(StrRaised, item.cls)

\* handle_streaming_intermediate_steps: "for item in message.items or []"
\* print(f"... {arguments}") / print(f"... {result}") after the put raises when
\* the value put cannot be formatted
PrintRaises(data) ==
    data.type \in {"function_call", "function_result"} /\ ~data.val.strOk

\* handle_streaming_intermediate_steps: the events put for one item, the
\* handler's intermediate_error included when the print after the put raises
BridgeItemEvents(item) ==
    IF PrintRaises(BridgeItem(item))
    THEN <<Event(BridgeItem(item)), Event(IntermediateErrorData(StrRaised, item.cls))>>
    ELSE <<Event(BridgeItem(item))>>

RECURSIVE BridgeEvents(_)
BridgeEvents(items) ==
    IF items = <<>> THEN <<>>
    ELSE BridgeItemEvents(Head(items)) \o BridgeEvents(Tail(items))

\* agent_stream_task, "for item in response.items": the events put, and
\* whether an exception left the loop
RECURSIVE InlineEvents(_)
InlineEvents(items) ==
    IF items = <<>> THEN [events |-> <<>>, raised |-> FALSE]
    ELSE LET item == Head(items)
             c == IF item.cls = "FunctionCallContent" THEN CoerceArguments(item.val)
                  ELSE CoerceResult(item.val)
             rest == InlineEvents(Tail(items))
         IN  IF item.cls = "FunctionCallContent"
             THEN IF c.raised THEN [events |-> <<>>, raised |-> TRUE]
                  ELSE IF PrintRaises(FunctionCallData(item.name, c.val))
                  THEN [events |-> <<Event(FunctionCallData(item.name, c.val))>>,
                        raised |-> TRUE]
                  ELSE [events |-> <<Event(FunctionCallData(item.name, c.val))>> \o rest.events,
                        raised |-> rest.raised]
             ELSE IF item.cls = "FunctionResultContent"
             THEN IF c.raised THEN [events |-> <<>>, raised |-> TRUE]
                  ELSE IF PrintRaises(FunctionResultData(item.name, c.val))
                  THEN [events |-> <<Event(FunctionResultData(item.name, c.val))>>,
                        raised |-> TRUE]
                  ELSE [events |-> <<Event(FunctionResultData(item.name, c.val))>> \o rest.events,
                        raised |-> rest.raised]
             ELSE rest

---------------------------------------------------------------------------
(* What the upstream may send *)

NoContent == <<"<None>">>     \* response.content is None

Texts == {<<>>, <<" ">>, <<"a">>, <<"b", " ">>}

Contents == Texts \cup {NoContent}

\* item lists of a callback message
MessageItemLists == {<<>>,
                     <<FunctionCallContent(TextVal)>>,
                     <<FunctionResultContent(ListObjVal)>>,
                     <<TextContent>>,
                     <<FunctionCallContent(BadStrVal), FunctionResultContent(ObjVal)>>}

\* item lists carried inline by a response chunk
ChunkItemLists == {<<>>,
                   <<FunctionCallContent(TextVal), FunctionResultContent(ObjVal)>>,
                   <<FunctionResultContent(ListObjVal)>>,
                   <<FunctionCallContent(BadStrVal)>>}

Chunk(items, content) == [kind |-> "chunk", items |-> items, content |-> content]
Message(items)        == [kind |-> "message", items |-> items, content |-> <<>>]

Chunks   == {Chunk(il, c) : il \in ChunkItemLists, c \in Contents}
Messages == {Message(il) : il \in MessageItemLists}

\* "content = ''; if response.content is not None: content = str(response.content)"
ChunkText(chunk) == IF chunk.content = NoContent THEN <<>> ELSE chunk.content

AgentName   == "ShadowAssistant"
NewThreadId == "thread_new"
UpstreamErr == "upstream raised"
NoAgentErr  == "'NoneType' object has no attribute 'invoke_stream'"
DumpsErr    == "Object is not JSON serializable"

\* response.thread.id: the thread that was passed in, or the one the assistant created
ResponseThreadId == IF current_thread = "None" THEN NewThreadId ELSE current_thread

---------------------------------------------------------------------------
(* Requests *)

\* no call outside the request is in progress
NoUnit == [kind |-> "none"]

\* a body that fails validation, a first turn and a follow-up turn; query and
\* threadId are read independently of each other
Requests == {[valid |-> FALSE, query |-> "", threadId |-> ""],
             [valid |-> TRUE, query |-> "", threadId |-> ""],
             [valid |-> TRUE, query |-> "q", threadId |-> "abc123"]}

Init ==
    /\ request \in Requests
    /\ http = "none"
    /\ agent = "unset"
    /\ current_thread = "None"
    /\ event_queue = <<>>
    /\ first_chunk = TRUE
    /\ stream_finished = FALSE
    /\ ppc = "none"
    /\ cpc = "request"
    /\ cur = NoEvent
    /\ out = <<>>
    /\ connected = TRUE
    /\ upstream = <<>>
    /\ enqueued = <<>>
    /\ unit = NoUnit

\* event_queue.put of a sequence of events, in order
Put(events) ==
    /\ event_queue' = event_queue \o events
    /\ enqueued' = enqueued \o events

---------------------------------------------------------------------------
(* Transport adapter *)

\* POST /shadow-sk: the body is validated against ShadowRequest, then the
\* handler returns the StreamingResponse
shadow_sk ==
    /\ cpc = "request"
    /\ IF request.valid
       THEN /\ http' = "200"
            /\ cpc' = "get_agent"
       ELSE /\ http' = "422"
            /\ cpc' = "rejected"
    /\ UNCHANGED <<request, agent, current_thread, event_queue, first_chunk,
                   stream_finished, ppc, cur, out, connected, upstream, enqueued>>
    /\ UNCHANGED auxVars

\* GetAgent with the thread always left for the assistant to create
GetAgentNoThread(a) ==
    /\ cpc = "get_agent"
    /\ agent' = a
    /\ IF request.threadId # "" /\ a = "None"
       THEN /\ cpc' = "crashed"
            /\ UNCHANGED <<current_thread, first_chunk, stream_finished, ppc>>
       ELSE /\ current_thread' = "None"
            /\ first_chunk' = TRUE
            /\ stream_finished' = FALSE
            /\ ppc' = "created"
            /\ cpc' = "poll"
    /\ UNCHANGED <<request, http, event_queue, cur, out, connected, upstream, enqueued>>
    /\ UNCHANGED auxVars

\* event_stream from "agent = await get_agent()" to the first suspension of
\* stream_events in wait_for(event_queue.get())
GetAgent(a) ==
    /\ cpc = "get_agent"
    /\ agent' = a
    /\ IF request.threadId # "" /\ a = "None"
       THEN \* agent.client raises AttributeError, outside every try block
            /\ cpc' = "crashed"
            /\ UNCHANGED <<current_thread, first_chunk, stream_finished, ppc>>
       ELSE /\ current_thread' = IF request.threadId # "" THEN request.threadId ELSE "None"
            /\ first_chunk' = TRUE
            /\ stream_finished' = FALSE
            /\ ppc' = "created"
            /\ cpc' = "poll"
    /\ UNCHANGED <<request, http, event_queue, cur, out, connected, upstream, enqueued>>
    /\ UNCHANGED auxVars

---------------------------------------------------------------------------
(* Upstream driver: agent_stream_task *)

\* the task starts running and calls agent.invoke_stream
TaskStart ==
    /\ ppc = "created"
    /\ IF agent = "None"
       THEN /\ Put(<<Event(ErrorData(NoAgentErr))>>)
            /\ stream_finished' = TRUE
            /\ ppc' = "done"
       ELSE /\ ppc' = "running"
            /\ UNCHANGED <<event_queue, enqueued, stream_finished>>
    /\ UNCHANGED <<request, http, agent, current_thread, first_chunk, cpc, cur,
                   out, connected, upstream>>
    /\ UNCHANGED auxVars

\* ChunkEvents with the thread_info put after the chunk's text
ChunkEventsInfoLast(chunk) ==
    LET info == IF first_chunk
                THEN <<Event(ThreadInfoData(AgentName, ResponseThreadId))>> ELSE <<>>
        inl == InlineEvents(chunk.items)
        content == ChunkText(chunk)
        text == IF Strip(content) # <<>> THEN <<Event(ContentData(content))>> ELSE <<>>
    IN  IF inl.raised
        THEN [events |-> info \o inl.events \o <<Event(ErrorData(StrRaised))>>, raised |-> TRUE]
        ELSE [events |-> inl.events \o text \o info, raised |-> FALSE]

\* ChunkEvents without the test that guards the content put
ChunkEventsNoGuard(chunk) ==
    LET info == IF first_chunk
                THEN <<Event(ThreadInfoData(AgentName, ResponseThreadId))>> ELSE <<>>
        inl == InlineEvents(chunk.items)
        content == ChunkText(chunk)
        text == <<Event(ContentData(content))>>
    IN  IF inl.raised
        THEN [events |-> info \o inl.events \o <<Event(ErrorData(StrRaised))>>, raised |-> TRUE]
        ELSE [events |-> info \o inl.events \o text, raised |-> FALSE]

\* ChunkEvents with the chunk's text put before its inline items
ChunkEventsTextFirst(chunk) ==
    LET info == IF first_chunk
                THEN <<Event(ThreadInfoData(AgentName, ResponseThreadId))>> ELSE <<>>
        inl == InlineEvents(chunk.items)
        content == ChunkText(chunk)
        text == IF Strip(content) # <<>> THEN <<Event(ContentData(content))>> ELSE <<>>
    IN  IF inl.raised
        THEN [events |-> info \o inl.events \o <<Event(ErrorData(StrRaised))>>, raised |-> TRUE]
        ELSE [events |-> info \o text \o inl.events, raised |-> FALSE]

\* the events put for one response chunk, and whether an exception ended the task
ChunkEvents(chunk) ==
    LET info == IF first_chunk
                THEN <<Event(ThreadInfoData(AgentName, ResponseThreadId))>> ELSE <<>>
        inl == InlineEvents(chunk.items)
        content == ChunkText(chunk)
        text == IF Strip(content) # <<>> THEN <<Event(ContentData(content))>> ELSE <<>>
    IN  IF inl.raised
        THEN [events |-> info \o inl.events \o <<Event(ErrorData(StrRaised))>>, raised |-> TRUE]
        ELSE [events |-> info \o inl.events \o text, raised |-> FALSE]

\* one iteration of "async for response in agent.invoke_stream(...)"
UpstreamChunk(chunk) ==
    /\ ppc = "running"
    /\ Len(upstream) < MaxUp
    /\ upstream' = Append(upstream, chunk)
    /\ LET r == ChunkEvents(chunk)
       IN  /\ Put(r.events)
           /\ first_chunk' = FALSE
           /\ IF r.raised
              THEN stream_finished' = TRUE /\ ppc' = "done"
              ELSE UNCHANGED <<stream_finished, ppc>>
    /\ UNCHANGED <<request, http, agent, current_thread, cpc, cur, out, connected>>
    /\ UNCHANGED auxVars

\* invoke_stream calls on_intermediate_message(message)
UpstreamMessage(message) ==
    /\ ppc = "running"
    /\ Len(upstream) < MaxUp
    /\ upstream' = Append(upstream, message)
    /\ Put(BridgeEvents(message.items))
    /\ UNCHANGED <<request, http, agent, current_thread, first_chunk,
                   stream_finished, ppc, cpc, cur, out, connected>>
    /\ UNCHANGED auxVars

\* the upstream stream is exhausted
UpstreamEnd ==
    /\ ppc = "running"
    /\ Put(<<Event(StreamCompleteData)>>)
    /\ stream_finished' = TRUE
    /\ ppc' = "done"
    /\ UNCHANGED <<request, http, agent, current_thread, first_chunk, cpc, cur,
                   out, connected, upstream>>
    /\ UNCHANGED auxVars

\* an exception escapes agent.invoke_stream and str(e) returns its text
UpstreamRaise ==
    /\ ppc = "running"
    /\ Put(<<Event(ErrorData(UpstreamErr))>>)
    /\ stream_finished' = TRUE
    /\ ppc' = "done"
    /\ UNCHANGED <<request, http, agent, current_thread, first_chunk, cpc, cur,
                   out, connected, upstream>>
    /\ UNCHANGED auxVars

---------------------------------------------------------------------------
(* Stream multiplexer: the consumption loop of stream_events *)

EventLine(t) == [line |-> "event", etype |-> t, data |-> NoEvent.data]
DataLine(t, d) == [line |-> "data", etype |-> t, data |-> d]

\* the loop condition with "and" in place of "or"
LoopTestAnd(finished, queue) == ~finished /\ queue # <<>>

\* "while not stream_finished or not event_queue.empty()", evaluated with the
\* flag and the queue as given
LoopTest(finished, queue) == ~finished \/ queue # <<>>

\* wait_for(event_queue.get()) returns an event; "yield event: ..."
Get ==
    /\ cpc = "poll"
    /\ event_queue # <<>>
    /\ cur' = Head(event_queue)
    /\ event_queue' = Tail(event_queue)
    /\ out' = Append(out, EventLine(Head(event_queue).etype))
    /\ cpc' = "yield_event"
    /\ UNCHANGED <<request, http, agent, current_thread, first_chunk,
                   stream_finished, ppc, connected, upstream, enqueued>>
    /\ UNCHANGED auxVars

\* a timeout whose cancelled get has already taken an envelope off the queue
TimeoutLossy ==
    /\ cpc = "poll"
    /\ event_queue' = IF event_queue # <<>> THEN Tail(event_queue) ELSE event_queue
    /\ cpc' = IF LoopTest(stream_finished, event_queue') THEN "poll" ELSE "await_task"
    /\ UNCHANGED <<request, http, agent, current_thread, first_chunk,
                   stream_finished, ppc, cur, out, connected, upstream, enqueued>>
    /\ UNCHANGED auxVars

\* asyncio.TimeoutError: continue, and the loop condition is tested again
Timeout ==
    /\ cpc = "poll"
    /\ cpc' = IF LoopTest(stream_finished, event_queue) THEN "poll" ELSE "await_task"
    /\ UNCHANGED <<request, http, agent, current_thread, event_queue, first_chunk,
                   stream_finished, ppc, cur, out, connected, upstream, enqueued>>
    /\ UNCHANGED auxVars

\* resumed after the event line: json.dumps(event_data), "yield data: ..."
YieldData ==
    /\ cpc = "yield_event"
    /\ IF JsonOk(cur.data)
       THEN /\ out' = Append(out, DataLine(cur.etype, cur.data))
            /\ cpc' = "yield_data"
       ELSE \* except Exception: "yield event: error"
            /\ out' = Append(out, EventLine("error"))
            /\ cpc' = "yield_error_event"
    /\ UNCHANGED <<request, http, agent, current_thread, event_queue, first_chunk,
                   stream_finished, ppc, cur, connected, upstream, enqueued>>
    /\ UNCHANGED auxVars

\* resumed after the data line: break on stream_complete, else next iteration
AfterData ==
    /\ cpc = "yield_data"
    /\ cpc' = IF cur.etype = "stream_complete" THEN "await_task"
              ELSE IF LoopTest(stream_finished, event_queue) THEN "poll"
              ELSE "await_task"
    /\ UNCHANGED <<request, http, agent, current_thread, event_queue, first_chunk,
                   stream_finished, ppc, cur, out, connected, upstream, enqueued>>
    /\ UNCHANGED auxVars

\* except Exception, second yield: the data line of the error record
YieldErrorData ==
    /\ cpc = "yield_error_event"
    /\ out' = Append(out, DataLine("error", ErrorData(DumpsErr)))
    /\ cpc' = "yield_error_data"
    /\ UNCHANGED <<request, http, agent, current_thread, event_queue, first_chunk,
                   stream_finished, ppc, cur, connected, upstream, enqueued>>
    /\ UNCHANGED auxVars

\* except Exception: break
AfterError ==
    /\ cpc = "yield_error_data"
    /\ cpc' = "await_task"
    /\ UNCHANGED <<request, http, agent, current_thread, event_queue, first_chunk,
                   stream_finished, ppc, cur, out, connected, upstream, enqueued>>
    /\ UNCHANGED auxVars

\* the response ends after the loop without awaiting agent_task
AwaitTaskNoWait ==
    /\ cpc = "await_task"
    /\ cpc' = "closed"
    /\ UNCHANGED <<request, http, agent, current_thread, event_queue, first_chunk,
                   stream_finished, ppc, cur, out, connected, upstream, enqueued>>
    /\ UNCHANGED auxVars

\* "await agent_task" returns; the generators finish and the response ends
AwaitTask ==
    /\ cpc = "await_task"
    /\ ppc = "done"
    /\ cpc' = "closed"
    /\ UNCHANGED <<request, http, agent, current_thread, event_queue, first_chunk,
                   stream_finished, ppc, cur, out, connected, upstream, enqueued>>
    /\ UNCHANGED auxVars

\* where the generator can be suspended while the response is being sent
Suspended == {"poll", "yield_event", "yield_data", "yield_error_event",
              "yield_error_data", "await_task", "yield_outer_event",
              "yield_outer_data"}

\* the task that a disconnect cancels: only a task the generator is awaiting
CancelledTask(at, task) == IF at = "await_task" /\ task = "running" THEN "cancelled" ELSE task

\* the client goes away: the generator is closed or cancelled where it is
\* suspended.  Cancelling "await agent_task" cancels the task too, whose
\* finally clause then runs; nothing else in the code cancels the task.
Disconnect ==
    /\ cpc \in Suspended
    /\ connected
    /\ connected' = FALSE
    /\ cpc' = "aborted"
    /\ ppc' = CancelledTask(cpc, ppc)
    /\ stream_finished' = IF ppc' = "cancelled" THEN TRUE ELSE stream_finished
    /\ UNCHANGED <<request, http, agent, current_thread, event_queue, first_chunk,
                   cur, out, upstream, enqueued>>
    /\ UNCHANGED auxVars

---------------------------------------------------------------------------

Producer ==
    \/ TaskStart
    \/ \E chunk \in Chunks : UpstreamChunk(chunk)
    \/ \E message \in Messages : UpstreamMessage(message)
    \/ UpstreamEnd
    \/ UpstreamRaise

Consumer ==
    \/ Get
    \/ Timeout
    \/ YieldData
    \/ AfterData
    \/ YieldErrorData
    \/ AfterError
    \/ AwaitTask

Next ==
    \/ shadow_sk
    \/ \E a \in {"agent", "None"} : GetAgent(a)
    \/ Producer
    \/ Consumer
    \/ Disconnect

Spec == Init /\ [][Next]_vars

\* The event loop runs every coroutine that is ready: the created task
\* starts, a queue get whose queue holds an event returns, and the generator
\* is resumed after each yield and each timeout.  Nothing obliges the
\* upstream to send, nor the client to disconnect.
FairSpec == Spec /\ WF_vars(TaskStart) /\ WF_vars(Get) /\ WF_vars(Consumer)

----------------------------------------------------------------------------
(* The stream when an upstream exception need not have a text: str(e) may *)
(* raise inside the task's own handler, and the task then fails.          *)

BadStrErr == "__str__ of the exception raised"

\* the payload of the outer handler of stream_events: {"error": str(e)}
OuterErrorData(err) == Envelope({"error"}, "", "", NoVal, <<>>, err)

\* an exception whose str() raises escapes agent.invoke_stream: the handler
\* "except Exception as e" fails at str(e), finally sets the flag, and the
\* task ends with the new exception
UpstreamRaiseBadStr ==
    /\ ppc = "running"
    /\ stream_finished' = TRUE
    /\ ppc' = "failed"
    /\ UNCHANGED <<request, http, agent, current_thread, event_queue, first_chunk,
                   cpc, cur, out, connected, upstream, enqueued>>
    /\ UNCHANGED auxVars

\* "await agent_task" raises the task's exception; the outer
\* "except Exception" yields "event: error"
AwaitTaskRaises ==
    /\ cpc = "await_task"
    /\ ppc = "failed"
    /\ out' = Append(out, EventLine("error"))
    /\ cpc' = "yield_outer_event"
    /\ UNCHANGED <<request, http, agent, current_thread, event_queue, first_chunk,
                   stream_finished, ppc, cur, connected, upstream, enqueued>>
    /\ UNCHANGED auxVars

\* the outer handler's second yield: the data line of its error record
YieldOuterData ==
    /\ cpc = "yield_outer_event"
    /\ out' = Append(out, DataLine("error", OuterErrorData(BadStrErr)))
    /\ cpc' = "yield_outer_data"
    /\ UNCHANGED <<request, http, agent, current_thread, event_queue, first_chunk,
                   stream_finished, ppc, cur, connected, upstream, enqueued>>
    /\ UNCHANGED auxVars

\* resumed after the outer handler's record: the generators finish
AfterOuter ==
    /\ cpc = "yield_outer_data"
    /\ cpc' = "closed"
    /\ UNCHANGED <<request, http, agent, current_thread, event_queue, first_chunk,
                   stream_finished, ppc, cur, out, connected, upstream, enqueued>>
    /\ UNCHANGED auxVars

AnyExcNext ==
    \/ Next
    \/ UpstreamRaiseBadStr
    \/ AwaitTaskRaises
    \/ YieldOuterData
    \/ AfterOuter

AnyExcSpec == Init /\ [][AnyExcNext]_vars

---------------------------------------------------------------------------
(* What the client has received, and what the upstream has sent *)

DataLines == SelectSeq(out, LAMBDA l : l.line = "data")

\* the envelopes delivered to the transport, in order
Delivered == [i \in 1..Len(DataLines) |-> DataLines[i].data]

\* the envelopes put on event_queue, in order
EnqueuedData == [i \in 1..Len(enqueued) |-> enqueued[i].data]

Terminal(data) == data.type \in {"stream_complete", "error"}

OfType(seq, type) == SelectSeq(seq, LAMBDA d : d.type = type)

ContentsOf(seq) == [i \in 1..Len(OfType(seq, "content")) |-> OfType(seq, "content")[i].content]

UpChunks == SelectSeq(upstream, LAMBDA u : u.kind = "chunk")
UpMessages == SelectSeq(upstream, LAMBDA u : u.kind = "message")

\* the texts of the chunks whose processing did not raise
ChunkTexts ==
    LET ok == SelectSeq(UpChunks, LAMBDA c : ~InlineEvents(c.items).raised)
    IN  [i \in 1..Len(ok) |-> ChunkText(ok[i])]

IsPrefix(s, t) == Len(s) <= Len(t) /\ \A i \in 1..Len(s) : s[i] = t[i]

RECURSIVE IsSubseq(_, _)
IsSubseq(s, t) ==
    IF s = <<>> THEN TRUE
    ELSE IF t = <<>> THEN FALSE
    ELSE IF Head(s) = Head(t) THEN IsSubseq(Tail(s), Tail(t))
    ELSE IsSubseq(s, Tail(t))

---------------------------------------------------------------------------
(* Claims *)

\* C1: the lines delivered by event_stream hold at most one terminal envelope
\* (stream_complete or error), and no line of any kind is delivered after it.
C1_OneTerminalLast ==
    \A i \in 1..Len(out) :
        (out[i].line = "data" /\ Terminal(out[i].data)) => i = Len(out)

\* C3: thread_info is delivered at most once, and before every content envelope,
\* whatever the interleaving with envelopes of the callback path.
C3_ThreadInfoFirst ==
    \A i, j \in 1..Len(Delivered) :
        /\ (Delivered[i].type = "thread_info" /\ Delivered[j].type = "thread_info") => i = j
        /\ (Delivered[i].type = "content" /\ Delivered[j].type = "thread_info") => j < i

\* C3 witness: a callback envelope delivered ahead of thread_info, then content
C3_Witness ==
    /\ Len(Delivered) >= 3
    /\ Delivered[1].type = "function_call"
    /\ Delivered[2].type = "thread_info"
    /\ Delivered[3].type = "content"
    /\ UpMessages # <<>>

\* C8: a chunk whose text is empty or absent yields no content envelope, and the
\* content envelopes appear in upstream chunk order: they are a subsequence of
\* the chunk texts, and exactly the non-empty texts when no text is blank.
C8_EmptySuppressed ==
    LET put == ContentsOf(EnqueuedData)
    IN  /\ \A i \in 1..Len(put) : put[i] # <<>>
        /\ IsSubseq(put, ChunkTexts)
        /\ (\A i \in 1..Len(ChunkTexts) : ChunkTexts[i] = <<>> \/ Strip(ChunkTexts[i]) # <<>>)
              => put = SelectSeq(ChunkTexts, LAMBDA t : t # <<>>)

\* C8 witness: a text chunk followed by an empty one, only the first one put
C8_Witness ==
    /\ Len(UpChunks) = 2
    /\ UpChunks[1].content = <<"a">>
    /\ UpChunks[2].content \in {<<>>, NoContent}
    /\ ContentsOf(EnqueuedData) = << <<"a">> >>
    /\ ppc = "done"

\* C2 (as claimed): with the client connected, a response that has ended has
\* delivered a terminal envelope as its last line, whatever get_agent returned
\* and whatever threadId was sent.
C2_ClosedAfterTerminal ==
    (cpc \in {"closed", "crashed"} /\ connected) =>
        /\ out # <<>>
        /\ out[Len(out)].line = "data"
        /\ Terminal(out[Len(out)].data)

\* C4 (as claimed): the envelopes delivered are at every point a prefix of the
\* envelopes put on the queue.
C4_DeliveredPrefix == IsPrefix(Delivered, EnqueuedData)

\* C5 (as claimed): once the client has disconnected, the producer task puts
\* no further envelope on the queue.
C5_NoPutAfterDisconnect == [][~connected => enqueued' = enqueued]_vars

\* a callback item whose envelope cannot be built, or cannot be serialized
Malformed(item) ==
    IF item.cls = "FunctionCallContent"
    THEN CoerceArguments(item.val).raised \/ ~CoerceArguments(item.val).val.json
    ELSE IF item.cls = "FunctionResultContent"
    THEN CoerceResult(item.val).raised \/ ~CoerceResult(item.val).val.json
    ELSE ~item.strOk

MalformedItems(message) == {k \in 1..Len(message.items) : Malformed(message.items[k])}

\* C6 (as claimed): in a response that has ended with the client connected,
\* where a notification with one malformed item was followed by a chunk with
\* text, the notification has produced exactly one intermediate_error envelope
\* and the content envelope of the later chunk has been delivered.
C6_MalformedIsolated ==
    (cpc = "closed" /\ connected) =>
        \A i, j \in 1..Len(upstream) :
            (/\ i < j
             /\ upstream[i].kind = "message"
             /\ Cardinality(MalformedItems(upstream[i])) = 1
             /\ Len(UpMessages) = 1
             /\ upstream[j].kind = "chunk"
             /\ ~InlineEvents(upstream[j].items).raised
             /\ Strip(ChunkText(upstream[j])) # <<>>)
            => /\ Len(OfType(Delivered, "intermediate_error")) = 1
               /\ \E k \in 1..Len(Delivered) :
                     Delivered[k] = ContentData(ChunkText(upstream[j]))

\* C7 (as claimed): every chunk with non-empty text, blank text included, puts
\* exactly one content envelope carrying that text.
C7_EveryNonEmptyChunk ==
    ContentsOf(EnqueuedData) = SelectSeq(ChunkTexts, LAMBDA t : t # <<>>)

\* C9 (as claimed): a request whose query is the empty string is rejected with a
\* client error; no task is created, get_agent is not called, nothing is delivered.
C9_EmptyQueryRejected ==
    (request.valid /\ request.query = "" /\ cpc # "request") =>
        /\ http = "422"
        /\ agent = "unset"
        /\ ppc = "none"
        /\ out = <<>>

\* C10 (as claimed): while the client is connected, every envelope put on the
\* queue is eventually delivered, also when the upstream sends nothing more.
C10_EventuallyDelivered ==
    \A n \in 1..2 :
        [](Len(enqueued) >= n =>
             <>(\/ ~connected
                \/ (Len(Delivered) >= n /\ Delivered[n] = enqueued[n].data)))

\* C11: with a non-empty threadId T the assistant is invoked on thread T and
\* every thread_info envelope carries T; with an empty threadId it is invoked
\* with no thread and thread_info carries the new, non-empty id the assistant
\* reports.
C11_ThreadIdResolved ==
    /\ ppc # "none" =>
          current_thread = (IF request.threadId # "" THEN request.threadId ELSE "None")
    /\ \A i \in 1..Len(EnqueuedData) :
          EnqueuedData[i].type = "thread_info" =>
              /\ EnqueuedData[i].info # ""
              /\ EnqueuedData[i].info =
                    (IF request.threadId # "" THEN request.threadId ELSE NewThreadId)

\* C11 witness: the thread_info of a follow-up turn has been delivered
C11_Witness ==
    /\ request.threadId = "abc123"
    /\ \E i \in 1..Len(Delivered) :
          Delivered[i] = ThreadInfoData(AgentName, "abc123")

\* C12: every yielded "event: <type>" line is immediately followed by the
\* "data:" line of the same envelope, also when serializing the envelope fails.
C12_EventThenItsData ==
    \A i \in 1..(Len(out) - 1) :
        out[i].line = "event" =>
            /\ out[i + 1].line = "data"
            /\ out[i + 1].etype = out[i].etype

----------------------------------------------------------------------------
\* The tool wrappers of ShadowInsightsPlugin and the search clients they call.
\* A text is a sequence of tokens; "" is the empty sequence.

Exc(cls, msg) == [cls |-> cls, msg |-> msg]
NoExc == Exc("none", <<>>)
Raise(exc) == [raised |-> TRUE, exc |-> exc, val |-> <<>>]
Return(val) == [raised |-> FALSE, exc |-> NoExc, val |-> val]

\* isinstance(exc, cls) for the exception classes that occur here
ExceptionClasses == {"ValueError", "RuntimeError", "TypeError", "KeyError",
                     "HttpResponseError", "SearchError"}
IsInstance(exc, cls) ==
    \/ exc.cls = cls
    \/ cls = "Exception" /\ exc.cls \in ExceptionClasses

\* the query argument the model passes to a tool
Queries == {[ty |-> "str", text |-> <<>>],
            [ty |-> "str", text |-> <<" ">>],
            [ty |-> "str", text |-> <<"q">>],
            [ty |-> "str", text |-> <<" ", "q">>],
            [ty |-> "NoneType", text |-> <<>>],
            [ty |-> "int", text |-> <<>>]}

\* behaviour of openai_client.embeddings.create inside get_embedding
Embeddings == {"vector", "OpenAIError", "OpenAIErrorNoBody"}

\* a document of the index; cleaned is the value of clean_text(doc["content"]),
\* ok is FALSE when a selected field is missing from the document
Doc(category, sourcefile, cleaned, ok) ==
    [category |-> category, sourcefile |-> sourcefile, cleaned |-> cleaned,
     document_title |-> category, content_text |-> cleaned, ok |-> ok]
Doc1 == Doc(<<"cat">>, <<"a.pdf">>, <<"text">>, TRUE)
Doc2 == Doc(<<"cat">>, <<"b.pdf">>, <<>>, TRUE)
DocEmpty == Doc(<<>>, <<>>, <<>>, TRUE)
DocMissing == Doc(<<>>, <<>>, <<>>, FALSE)

\* behaviour of self.sc.search and of iterating its result
Backends == {[kind |-> "docs", docs |-> <<>>, exc |-> NoExc],
             [kind |-> "docs", docs |-> <<Doc1>>, exc |-> NoExc],
             [kind |-> "docs", docs |-> <<Doc1, Doc2>>, exc |-> NoExc],
             [kind |-> "docs", docs |-> <<DocEmpty>>, exc |-> NoExc],
             [kind |-> "docs", docs |-> <<Doc1, DocMissing>>, exc |-> NoExc],
             [kind |-> "raise", docs |-> <<>>, exc |-> Exc("HttpResponseError", <<"403">>)],
             [kind |-> "raise", docs |-> <<>>, exc |-> Exc("ValueError", <<"bad vector">>)]}

\* "\n".join(lines)
RECURSIVE Join(_)
Join(lines) ==
    IF lines = <<>> THEN <<>>
    ELSE IF Len(lines) = 1 THEN lines[1]
    ELSE lines[1] \o <<"\n">> \o Join(Tail(lines))

get_embedding(query, emb) ==
    CASE emb = "vector" -> Return(<<"vector">>)
      [] emb = "OpenAIError" -> Return(<<"None">>)
      [] emb = "OpenAIErrorNoBody" ->
            Raise(Exc("TypeError", <<"'NoneType' object is not subscriptable">>))

HybridSearchError(e) ==
    Exc("RuntimeError", <<"Error performing hybrid search: ">> \o e.msg)

\* the body of search_hybrid once the lines of the documents are known
search_hybrid(query, emb, backend, lines) ==
    IF get_embedding(query, emb).raised
    THEN Raise(HybridSearchError(get_embedding(query, emb).exc))
    ELSE IF backend.kind = "raise"
    THEN Raise(HybridSearchError(backend.exc))
    ELSE IF \E i \in 1..Len(backend.docs) : ~backend.docs[i].ok
    THEN Raise(HybridSearchError(Exc("KeyError", <<"'content'">>)))
    ELSE Return(Join(lines))

SearchShadow_search_hybrid(query, emb, backend) ==
    search_hybrid(query, emb, backend,
        [i \in 1..Len(backend.docs) |->
            backend.docs[i].category \o backend.docs[i].sourcefile
                \o backend.docs[i].cleaned])

SearchUser_search_hybrid(query, emb, backend) ==
    search_hybrid(query, emb, backend,
        [i \in 1..Len(backend.docs) |->
            backend.docs[i].document_title \o <<":  ">>
                \o backend.docs[i].content_text])

\* the customer index client: search(query) -> text, fails with SearchError
SearchCustomer_search_hybrid(query, emb, backend) ==
    IF backend.kind = "raise" \/ \E i \in 1..Len(backend.docs) : ~backend.docs[i].ok
    THEN Raise(Exc("SearchError", <<"search failed">>))
    ELSE Return(Join([i \in 1..Len(backend.docs) |-> backend.docs[i].cleaned]))


NoDocs(index) == <<"No relevant documents found in the ", index, " index.">>
InputError(e) == <<"Input error: ">> \o e.msg
RetrieveError(index, e) ==
    <<"An error occurred while retrieving documents from the ", index, " index: ">>
        \o e.msg

ValidQuery(query) == query.ty = "str" /\ Strip(query.text) # <<>>

\* how many times the try block calls search_hybrid: the ValueError is raised
\* before the call
SearchCalls(query) == IF ValidQuery(query) THEN 1 ELSE 0

\* the try block without the check of the query
ToolBodyNoCheck(index, query, search) ==
    IF search.raised THEN search
    ELSE IF search.val = <<>> THEN Return(NoDocs(index))
    ELSE Return(search.val)

\* the try block of a tool wrapper; search is the outcome of search_hybrid
ToolBody(index, query, search) ==
    IF ~ValidQuery(query)
    THEN Raise(Exc("ValueError", <<"The query must be a non-empty string.">>))
    ELSE IF search.raised THEN search
    ELSE IF search.val = <<>> THEN Return(NoDocs(index))
    ELSE Return(search.val)

\* a tool wrapper whose only handler is "except ValueError"
ToolWrapperValueErrorOnly(index, query, search) ==
    IF ~ToolBody(index, query, search).raised
    THEN ToolBody(index, query, search)
    ELSE IF IsInstance(ToolBody(index, query, search).exc, "ValueError")
    THEN Return(InputError(ToolBody(index, query, search).exc))
    ELSE ToolBody(index, query, search)

\* a tool wrapper: the try block and its two handlers
ToolWrapper(index, query, search) ==
    IF ~ToolBody(index, query, search).raised
    THEN ToolBody(index, query, search)
    ELSE IF IsInstance(ToolBody(index, query, search).exc, "ValueError")
    THEN Return(InputError(ToolBody(index, query, search).exc))
    ELSE IF IsInstance(ToolBody(index, query, search).exc, "Exception")
    THEN Return(RetrieveError(index, ToolBody(index, query, search).exc))
    ELSE ToolBody(index, query, search)

\* a tool call about to be made by the assistant
ToolCalls ==
    {[kind |-> "tool", pc |-> "call", tool |-> "none", index |-> "none",
      query |-> q, emb |-> e, backend |-> b,
      search |-> Return(<<>>), result |-> Return(<<>>), calls |-> 0] :
        q \in Queries, e \in Embeddings, b \in Backends}

\* no request is in progress
Idle ==
    /\ request = [valid |-> FALSE, query |-> "", threadId |-> ""]
    /\ http = "none"
    /\ agent = "unset"
    /\ current_thread = "None"
    /\ event_queue = <<>>
    /\ first_chunk = TRUE
    /\ stream_finished = FALSE
    /\ ppc = "none"
    /\ cpc = "request"
    /\ cur = NoEvent
    /\ out = <<>>
    /\ connected = TRUE
    /\ upstream = <<>>
    /\ enqueued = <<>>

mainVars == <<request, http, agent, current_thread, event_queue, first_chunk,
              stream_finished, ppc, cpc, cur, out, connected, upstream, enqueued>>

ToolInit == Idle /\ unit \in ToolCalls

\* unit after the tool has returned or raised
ToolReturned(tool, index, search) ==
    [unit EXCEPT !.pc = "returned", !.tool = tool, !.index = index,
                 !.search = search,
                 !.calls = SearchCalls(unit.query),
                 !.result = ToolWrapper(index, unit.query, search)]

get_sales_docs ==
    /\ unit.kind = "tool" /\ unit.pc = "call"
    /\ unit' = ToolReturned("get_sales_docs", "sales",
                   SearchShadow_search_hybrid(unit.query, unit.emb, unit.backend))
    /\ UNCHANGED mainVars

get_customer_docs ==
    /\ unit.kind = "tool" /\ unit.pc = "call"
    /\ unit' = ToolReturned("get_customer_docs", "pursuit",
                   SearchCustomer_search_hybrid(unit.query, unit.emb, unit.backend))
    /\ UNCHANGED mainVars

get_user_docs ==
    /\ unit.kind = "tool" /\ unit.pc = "call"
    /\ unit' = ToolReturned("get_user_docs", "user",
                   SearchUser_search_hybrid(unit.query, unit.emb, unit.backend))
    /\ UNCHANGED mainVars

ToolNext == get_sales_docs \/ get_customer_docs \/ get_user_docs

ToolSpec == ToolInit /\ [][ToolNext]_vars

\* C13: the tool wrappers never propagate an exception: for every query and
\* every behaviour of the search client they return a text, the "No relevant
\* documents found" message when the search result is empty and a descriptive
\* error message, carrying the failure's text, when the search raises.
C13_ToolsNeverRaise ==
    (unit.kind = "tool" /\ unit.pc = "returned") =>
        /\ ~unit.result.raised
        /\ unit.result.val # <<>>
        /\ (ValidQuery(unit.query) /\ ~unit.search.raised /\ unit.search.val = <<>>)
              => unit.result.val = NoDocs(unit.index)
        /\ (ValidQuery(unit.query) /\ unit.search.raised)
              => /\ Head(unit.result.val) =
                        "An error occurred while retrieving documents from the "
                 /\ unit.result.val = RetrieveError(unit.index, unit.search.exc)
                 /\ unit.search.exc.msg # <<>>

\* C13 witness: the search of the sales index raised and the tool returned
\* the error text
C13_Witness ==
    /\ unit.kind = "tool" /\ unit.pc = "returned"
    /\ unit.tool = "get_sales_docs"
    /\ ValidQuery(unit.query)
    /\ unit.search.raised
    /\ unit.backend.kind = "raise"
    /\ ~unit.result.raised
    /\ unit.result.val = RetrieveError("sales", unit.search.exc)

\* C14: once the producer has finished, the consumption loop terminates in
\* every interleaving of the last enqueue and the consumer's polling, and it
\* has then delivered the producer's terminal envelope.
C14_LoopEndsAfterTerminal ==
    (ppc = "done" /\ connected /\ cpc \in {"await_task", "closed"}) =>
        /\ enqueued # <<>>
        /\ Terminal(EnqueuedData[Len(enqueued)])
        /\ \E i \in 1..Len(Delivered) :
              Delivered[i] = EnqueuedData[Len(enqueued)]

\* C15: a poll timeout ends the consumption loop only when the producer has
\* finished and the queue is empty; while the producer is still running a
\* timeout neither ends the stream nor emits anything.
C15_TimeoutOnlyPolls ==
    [][Timeout =>
          /\ out' = out
          /\ event_queue' = event_queue
          /\ cpc' # "poll" => (stream_finished /\ ppc \in {"done", "failed"}
                                                /\ event_queue = <<>>)
          /\ ppc \in {"created", "running"} => cpc' = "poll"]_vars

\* C15 witness: the consumer polls an empty queue while the producer is
\* running and output has already been delivered, so the wait can only time out
C15_Witness ==
    /\ cpc = "poll"
    /\ ppc = "running"
    /\ event_queue = <<>>
    /\ ~stream_finished
    /\ Len(out) >= 2

\* C16: whenever the response ends after the consumption loop has exited, the
\* producer task has already finished.
C16_TaskDoneBeforeClose ==
    cpc = "closed" => (ppc \in {"done", "failed"} /\ stream_finished)

\* C16 witness: the loop exited early while the producer was still running,
\* and the response ended only after the producer had finished and left
\* envelopes on the queue
C16_Witness ==
    /\ cpc = "closed"
    /\ ppc = "done"
    /\ event_queue # <<>>
    /\ Terminal(event_queue[Len(event_queue)].data)

\* C17: the producer task enqueues exactly one terminal envelope, as its last
\* enqueue: stream_complete when the upstream stream is exhausted, error with
\* the exception's message when an exception escapes the iteration; never
\* both; the completion flag is set on both paths.
C17_ProducerTerminal ==
    [][/\ (ppc \in {"created", "running"} /\ ppc' \in {"done", "failed"}) =>
              /\ stream_finished'
              /\ enqueued' # <<>>
              /\ Len(SelectSeq(EnqueuedData', Terminal)) = 1
              /\ Terminal(EnqueuedData'[Len(enqueued')])
              /\ IF UpstreamEnd
                 THEN EnqueuedData'[Len(enqueued')] = StreamCompleteData
                 ELSE /\ EnqueuedData'[Len(enqueued')].type = "error"
                      /\ EnqueuedData'[Len(enqueued')].info # ""
       /\ ppc = "done" => (enqueued' = enqueued /\ ppc' = "done")
       /\ ppc' \in {"created", "running"} =>
              /\ ~stream_finished'
              /\ SelectSeq(EnqueuedData', Terminal) = <<>>]_vars

----------------------------------------------------------------------------
\* The two item paths on their own: one callback notification, or the inline
\* items of one response chunk, over every kind of item value.

MaxItems == 2

ItemValues == {TextVal, DictVal, NoneVal, ObjVal, BadStrVal, ListObjVal,
               ZeroVal, EmptyListVal, FalsyBadVal, ListBadVal}

ProbeItems ==
    {FunctionCallContent(v) : v \in ItemValues}
        \cup {FunctionResultContent(v) : v \in ItemValues}
        \cup {TextContent, BadTextContent}

ItemProbes ==
    {[kind |-> "items", pc |-> "call", path |-> "none", items |-> l, raised |-> FALSE] :
        l \in UNION {[1..n -> ProbeItems] : n \in 0..MaxItems}}

ItemInit == Idle /\ unit \in ItemProbes

itemVars == <<request, http, agent, current_thread, first_chunk, stream_finished,
              ppc, cpc, cur, out, connected, upstream>>

\* handle_streaming_intermediate_steps(message) with message.items = unit.items
ItemCallback ==
    /\ unit.kind = "items" /\ unit.pc = "call"
    /\ Put(BridgeEvents(unit.items))
    /\ unit' = [unit EXCEPT !.pc = "done", !.path = "callback"]
    /\ UNCHANGED itemVars

\* agent_stream_task, "for item in response.items" with response.items = unit.items
ItemInline ==
    /\ unit.kind = "items" /\ unit.pc = "call"
    /\ Put(InlineEvents(unit.items).events)
    /\ unit' = [unit EXCEPT !.pc = "done", !.path = "inline",
                            !.raised = InlineEvents(unit.items).raised]
    /\ UNCHANGED itemVars

ItemNext == ItemCallback \/ ItemInline

ItemSpec == ItemInit /\ [][ItemNext]_vars

\* the envelope type the bridge owes an item of this class
ExpectedType(item) ==
    IF item.cls = "FunctionCallContent" THEN "function_call"
    ELSE IF item.cls = "FunctionResultContent" THEN "function_result"
    ELSE "intermediate"

\* C18: for a callback notification with items i1..in the bridge enqueues
\* exactly one envelope per item, in item order: the envelope of the item's
\* kind, or intermediate_error if processing the item fails; a failure on one
\* item does not stop the later items.
C18_OneEnvelopePerItem ==
    (unit.kind = "items" /\ unit.pc = "done" /\ unit.path = "callback") =>
        /\ Len(enqueued) = Len(unit.items)
        /\ \A i \in 1..Len(unit.items) :
              i <= Len(enqueued) =>
                  EnqueuedData[i].type \in {ExpectedType(unit.items[i]), "intermediate_error"}

\* C20: on both the callback path and the inline path the arguments of every
\* enqueued function_call envelope is text or a mapping; any other value,
\* falsy ones included, has been replaced by its textual form.
C20_ArgumentsTextOrMapping ==
    (unit.kind = "items" /\ unit.pc = "done") =>
        \A i \in 1..Len(enqueued) :
            EnqueuedData[i].type = "function_call" =>
                EnqueuedData[i].val.ty \in {"str", "dict"}

\* C19: a terminal error envelope is delivered only when the upstream stream
\* itself raised; a failure scoped to one item or tool call (callback path,
\* inline items of a chunk, or serialization of its envelope) never ends the
\* stream with an error.
C19_ErrorOnlyFromUpstream ==
    \A i \in 1..Len(Delivered) :
        Delivered[i].type = "error" => Delivered[i].info \in {UpstreamErr, NoAgentErr}

\* C21: every envelope put on the shared queue is JSON-serializable, so the
\* consumer's json.dumps of a dequeued envelope never fails, also for lists and
\* mappings that hold opaque objects.
C21_EnqueuedSerializable ==
    /\ \A i \in 1..Len(enqueued) : JsonOk(EnqueuedData[i])
    /\ cpc \notin {"yield_error_event", "yield_error_data"}

\* the envelopes put by the step that is being taken
NewlyEnqueued == SubSeq(EnqueuedData', Len(enqueued) + 1, Len(enqueued'))

\* the function-call and function-result items of an item list
ToolItems(items) ==
    SelectSeq(items, LAMBDA it : it.cls \in {"FunctionCallContent", "FunctionResultContent"})

IsToolEnvelope(d) == d.type \in {"function_call", "function_result"}

\* C22: for every upstream chunk with inline tool-call/result items, the
\* function_call and function_result envelopes of those items are enqueued in
\* item order, before the content envelope of that chunk and after thread_info
\* when the chunk is the first one.
C22_InlineBeforeContent ==
    [][\A chunk \in Chunks :
          (UpstreamChunk(chunk) /\ chunk.items # <<>>) =>
              LET new == NewlyEnqueued
                  tools == SelectSeq(new, IsToolEnvelope)
              IN  /\ \A i, j \in 1..Len(new) :
                        /\ (IsToolEnvelope(new[i]) /\ new[j].type = "content") => i < j
                        /\ (IsToolEnvelope(new[i]) /\ new[j].type = "thread_info") => j < i
                  /\ first_chunk => (new # <<>> /\ new[1].type = "thread_info")
                  /\ Len(tools) <= Len(ToolItems(chunk.items))
                  /\ \A i \in 1..Len(tools) :
                        /\ tools[i].type = ExpectedType(ToolItems(chunk.items)[i])
                        /\ tools[i].fname = ToolItems(chunk.items)[i].name
                  /\ (\E j \in 1..Len(new) : new[j].type = "content")
                        => Len(tools) = Len(ToolItems(chunk.items))]_vars

\* C22 witness: the first chunk carried a call item, a result item and text
C22_Witness ==
    /\ Len(enqueued) >= 4
    /\ Len(upstream) >= 1
    /\ upstream[1].kind = "chunk"
    /\ Len(upstream[1].items) = 2
    /\ EnqueuedData[1].type = "thread_info"
    /\ EnqueuedData[2].type = "function_call"
    /\ EnqueuedData[3].type = "function_result"
    /\ EnqueuedData[4].type = "content"

\* C23: no enqueued envelope is dropped: when a stream has ended with the
\* client still connected, the envelopes delivered are exactly the envelopes
\* the upstream driver and the callback bridge enqueued, in the same order.
C23_NothingDropped ==
    (cpc = "closed" /\ connected) => Delivered = EnqueuedData

\* the fields a client reads from a payload of the given type
RequiredKeys(type) ==
    CASE type = "function_call" -> {"type", "function_name", "arguments"}
      [] type = "function_result" -> {"type", "function_name", "result"}
      [] type = "content" -> {"type", "content"}
      [] type = "intermediate" -> {"type", "content"}
      [] type = "thread_info" -> {"type", "agent_name", "thread_id"}
      [] type = "intermediate_error" -> {"type", "error", "item_type"}
      [] type = "error" -> {"type", "error"}
      [] OTHER -> {"type"}

\* C24: every data payload delivered, the error payloads of the multiplexer's
\* exception handlers included, is an object with a type field equal to the
\* event name of its own record and with the fields a client reads for that
\* type.
C24_PayloadTyped ==
    \A i \in 1..Len(out) :
        out[i].line = "data" =>
            /\ "type" \in out[i].data.keys
            /\ out[i].data.type = out[i].etype
            /\ RequiredKeys(out[i].etype) \subseteq out[i].data.keys

----------------------------------------------------------------------------
\* The command-line client of get_stream.py reading one response of /shadow-sk.

\* the two lines of one SSE record as the server yields them
SseRecord(d) == <<EventLine(d.type), DataLine(d.type, d)>>

\* what the server may have sent before the terminal record
ResponseBodies ==
    {<<>>,
     SseRecord(ContentData(<<"a">>)),
     SseRecord(FunctionCallData("get_sales_docs", TextVal))
        \o SseRecord(FunctionResultData("get_sales_docs", TextVal))
        \o SseRecord(ContentData(<<"a">>)),
     SseRecord(IntermediateData("str(item)")) \o SseRecord(ContentData(<<"b", " ">>))}

\* responses of the server: thread_info first, a body, a terminal record; and
\* the response that ends before any record
ServerResponses ==
    {SseRecord(ThreadInfoData(AgentName, tid)) \o body \o SseRecord(term) :
        tid \in {"abc123", NewThreadId}, body \in ResponseBodies,
        term \in {StreamCompleteData, ErrorData(UpstreamErr)}}
    \cup {<<>>, SseRecord(ErrorData(NoAgentErr))}

\* the local variable json_data before its first assignment
Unbound == [bound |-> FALSE, keys |-> {}, info |-> ""]

\* json.loads(line) after the "data: " prefix was removed: an "event: ..." line
\* is not JSON, a data line parses to the payload object
JsonLoads(l) ==
    IF l.line = "data"
    THEN [raised |-> FALSE, obj |-> [bound |-> TRUE, keys |-> l.data.keys, info |-> l.data.info]]
    ELSE [raised |-> TRUE, obj |-> Unbound]

\* json_data.get(key, ""): thread_id is the only text field the model keeps
DictGet(obj, key) ==
    IF key \notin obj.keys THEN ""
    ELSE IF key = "thread_id" THEN obj.info
    ELSE "value"

\* the thread id the server reported in a response, "" if it reported none
ReportedThread(lines) ==
    IF \E i \in 1..Len(lines) : lines[i].line = "data" /\ lines[i].data.type = "thread_info"
    THEN (CHOOSE d \in {lines[i].data : i \in 1..Len(lines)} : d.type = "thread_info").info
    ELSE ""

ClientStarts ==
    {[kind |-> "client", pc |-> "reading", sent |-> t, lines |-> r, pos |-> 1,
      json_data |-> Unbound, returned |-> "", threadId |-> t] :
        r \in ServerResponses, t \in {"", "abc123"}}

ClientInit == Idle /\ unit \in ClientStarts

\* consume_sse: one line of the response is handled
ClientLine ==
    /\ unit.kind = "client" /\ unit.pc = "reading"
    /\ unit.pos <= Len(unit.lines)
    /\ unit' = [unit EXCEPT
                  !.pos = unit.pos + 1,
                  !.json_data = IF JsonLoads(unit.lines[unit.pos]).raised
                                THEN unit.json_data
                                ELSE JsonLoads(unit.lines[unit.pos]).obj]
    /\ UNCHANGED mainVars

\* consume_sse: the response is exhausted;
\* return json_data.get("threadId", "") if 'json_data' in locals() else ""
ClientReturn ==
    /\ unit.kind = "client" /\ unit.pc = "reading"
    /\ unit.pos > Len(unit.lines)
    /\ unit' = [unit EXCEPT
                  !.pc = "returned",
                  !.returned = IF unit.json_data.bound
                               THEN DictGet(unit.json_data, "threadId") ELSE ""]
    /\ UNCHANGED mainVars

\* main: threadId = await consume_sse(url, payload); the next payload carries it
ClientMain ==
    /\ unit.kind = "client" /\ unit.pc = "returned"
    /\ unit' = [unit EXCEPT !.pc = "next_request", !.threadId = unit.returned]
    /\ UNCHANGED mainVars

ClientNext == ClientLine \/ ClientReturn \/ ClientMain

ClientSpec == ClientInit /\ [][ClientNext]_vars

\* C25: after an exchange completes, consume_sse returns the thread id the
\* server reported, and main sends it as threadId of the next request.
C25_ThreadIdCarriedOver ==
    (unit.kind = "client" /\ unit.pc = "next_request"
        /\ ReportedThread(unit.lines) # "") =>
            /\ unit.returned = ReportedThread(unit.lines)
            /\ unit.threadId = ReportedThread(unit.lines)

----------------------------------------------------------------------------
\* Two requests active at once.  Each call of event_stream creates its own
\* event_queue, first_chunk and stream_finished, captured by its own callback,
\* task and consumption loop; unit holds them indexed by request.

MaxPairUp == 2

Reqs == {1, 2}

\* an envelope, tagged with the request whose producer or callback built it
PairEnv(type, r) == [type |-> type, owner |-> r]

\* the queue, and the flags, that the closures of request r refer to
QueueOfShared(r) == 1
QueueOf(r) == r
FlagsOf(r) == r

PairStart ==
    [kind |-> "pair",
     queue |-> [r \in Reqs |-> <<>>],
     first_chunk |-> [r \in Reqs |-> TRUE],
     stream_finished |-> [r \in Reqs |-> FALSE],
     ppc |-> [r \in Reqs |-> "running"],
     cpc |-> [r \in Reqs |-> "poll"],
     sent |-> [r \in Reqs |-> 0],
     put |-> [r \in Reqs |-> <<>>],
     out |-> [r \in Reqs |-> <<>>]]

PairInit == Idle /\ unit = PairStart

\* event_queue.put by request r of a sequence of envelopes
PairPut(u, r, events) ==
    [u EXCEPT !.queue[QueueOf(r)] = @ \o events, !.put[r] = @ \o events]

\* request r: one response chunk with text
PairChunk(r) ==
    /\ unit.kind = "pair" /\ unit.ppc[r] = "running"
    /\ unit.sent[r] < MaxPairUp
    /\ unit' = [PairPut(unit, r,
                    (IF unit.first_chunk[FlagsOf(r)]
                     THEN <<PairEnv("thread_info", r)>> ELSE <<>>)
                    \o <<PairEnv("content", r)>>)
                EXCEPT !.first_chunk[FlagsOf(r)] = FALSE, !.sent[r] = @ + 1]
    /\ UNCHANGED mainVars

\* request r: the callback is called with one function-call item
PairCallback(r) ==
    /\ unit.kind = "pair" /\ unit.ppc[r] = "running"
    /\ unit.sent[r] < MaxPairUp
    /\ unit' = [PairPut(unit, r, <<PairEnv("function_call", r)>>)
                EXCEPT !.sent[r] = @ + 1]
    /\ UNCHANGED mainVars

\* request r: the upstream stream is exhausted, or raises
PairEnd(r, type) ==
    /\ unit.kind = "pair" /\ unit.ppc[r] = "running"
    /\ unit' = [PairPut(unit, r, <<PairEnv(type, r)>>)
                EXCEPT !.stream_finished[FlagsOf(r)] = TRUE, !.ppc[r] = "done"]
    /\ UNCHANGED mainVars

\* request r: the loop takes an envelope off its queue and yields its record
PairGet(r) ==
    /\ unit.kind = "pair" /\ unit.cpc[r] = "poll"
    /\ unit.queue[QueueOf(r)] # <<>>
    /\ LET e == Head(unit.queue[QueueOf(r)])
           rest == Tail(unit.queue[QueueOf(r)])
       IN  unit' = [unit EXCEPT
                      !.queue[QueueOf(r)] = rest,
                      !.out[r] = Append(@, e),
                      !.cpc[r] = IF e.type = "stream_complete" THEN "await_task"
                                 ELSE IF LoopTest(unit.stream_finished[FlagsOf(r)], rest)
                                 THEN "poll" ELSE "await_task"]
    /\ UNCHANGED mainVars

\* request r: the poll times out and the loop condition is tested again
PairTimeout(r) ==
    /\ unit.kind = "pair" /\ unit.cpc[r] = "poll"
    /\ unit.queue[QueueOf(r)] = <<>>
    /\ unit' = [unit EXCEPT
                  !.cpc[r] = IF LoopTest(unit.stream_finished[FlagsOf(r)],
                                         unit.queue[QueueOf(r)])
                             THEN "poll" ELSE "await_task"]
    /\ UNCHANGED mainVars

\* request r: "await agent_task" returns and the response ends
PairAwait(r) ==
    /\ unit.kind = "pair" /\ unit.cpc[r] = "await_task"
    /\ unit.ppc[r] = "done"
    /\ unit' = [unit EXCEPT !.cpc[r] = "closed"]
    /\ UNCHANGED mainVars

PairNext ==
    \E r \in Reqs :
        \/ PairChunk(r)
        \/ PairCallback(r)
        \/ \E type \in {"stream_complete", "error"} : PairEnd(r, type)
        \/ PairGet(r)
        \/ PairTimeout(r)
        \/ PairAwait(r)

PairSpec == PairInit /\ [][PairNext]_vars

C27_FinishedMeansTerminal ==
    stream_finished =>
        /\ enqueued # <<>>
        /\ Terminal(EnqueuedData[Len(enqueued)])

\* C28: a poll timeout changes nothing observable: it delivers no record and
\* neither removes, loses nor reorders any envelope in the queue, also when an
\* envelope is enqueued at the moment the timeout fires.
C28_TimeoutLosesNothing ==
    [][Timeout =>
          /\ out' = out
          /\ event_queue' = event_queue
          /\ enqueued' = enqueued
          /\ cur' = cur
          /\ (event_queue # <<>> => cpc' = "poll")]_vars

\* C28 witness: the consumer is polling with an envelope already on the queue
\* and earlier ones delivered: a timeout firing now races with that enqueue
C28_Witness ==
    /\ cpc = "poll"
    /\ event_queue # <<>>
    /\ Len(Delivered) >= 1
    /\ ppc = "running"

\* C29: when the query given to get_sales_docs, get_customer_docs or
\* get_user_docs is not a string, is empty or is only whitespace, the wrapper
\* returns a text beginning with "Input error:" and does not call the search
\* client.
C29_InvalidQueryNoSearch ==
    (unit.kind = "tool" /\ unit.pc = "returned"
        /\ (unit.query.ty # "str" \/ Strip(unit.query.text) = <<>>)) =>
            /\ ~unit.result.raised
            /\ unit.result.val # <<>>
            /\ Head(unit.result.val) = "Input error: "
            /\ unit.calls = 0

\* C29 witness: a non-text query to the user index tool, whose search client
\* would have raised, answered with the input error
C29_Witness ==
    /\ unit.kind = "tool" /\ unit.pc = "returned"
    /\ unit.tool = "get_user_docs"
    /\ unit.query.ty = "int"
    /\ unit.backend.kind = "raise"
    /\ unit.calls = 0
    /\ unit.result = Return(<<"Input error: ", "The query must be a non-empty string.">>)

----------------------------------------------------------------------------
\* utils/log_chat_history.py: the decorator log_chat_model_dump around an
\* async generator function.

MaxLog == 2

LogValues == {"a", "b"}

\* the parser_function argument: absent, not callable, returning, or raising
Parsers == {"None", "not callable", "returns", "raises"}

\* "if parser_function and callable(parser_function): try: ... except Exception":
\* bound says whether json_data was assigned by the logging step before
ParserStepNoTry(parser, bound) ==
    IF parser \in {"None", "not callable"} THEN "skipped"
    ELSE IF ~bound THEN "propagated"
    ELSE IF parser = "raises" THEN "propagated"
    ELSE "parsed"

ParserStep(parser, bound) ==
    IF parser \in {"None", "not callable"} THEN "skipped"
    ELSE IF ~bound THEN "caught"
    ELSE IF parser = "raises" THEN "caught"
    ELSE "parsed"

\* one run of a decorated function: what the wrapped generator will yield and
\* how it ends, whether chat has model_dump_json, and the parser given
LogRuns ==
    {[kind |-> "log", pc |-> "iterating", source |-> s, ends |-> e,
      has_dump |-> h, parser |-> p, yielded |-> <<>>, finally_runs |-> 0,
      logged |-> 0, parsed |-> "not run", outcome |-> "running"] :
        s \in UNION {[1..n -> LogValues] : n \in 0..MaxLog},
        e \in {"exhausted", "raises"}, h \in BOOLEAN, p \in Parsers}

LogInit == Idle /\ unit \in LogRuns

\* the finally clause of wrapper, run when the wrapped stream has ended with
\* the given outcome
LogFinally(u, ended) ==
    [u EXCEPT !.pc = "done",
              !.finally_runs = @ + 1,
              !.logged = IF u.has_dump THEN @ + 1 ELSE @,
              !.parsed = ParserStep(u.parser, u.has_dump),
              !.outcome = IF ParserStep(u.parser, u.has_dump) = "propagated"
                          THEN "parser exception" ELSE ended]

\* "async for value in result: yield value"
LogYield ==
    /\ unit.kind = "log" /\ unit.pc = "iterating"
    /\ Len(unit.yielded) < Len(unit.source)
    /\ unit' = [unit EXCEPT !.yielded = Append(@, unit.source[Len(unit.yielded) + 1])]
    /\ UNCHANGED mainVars

\* the wrapped generator is exhausted
LogExhausted ==
    /\ unit.kind = "log" /\ unit.pc = "iterating"
    /\ Len(unit.yielded) = Len(unit.source)
    /\ unit.ends = "exhausted"
    /\ unit' = LogFinally(unit, "exhausted")
    /\ UNCHANGED mainVars

\* the wrapped generator raises after its last value
LogRaised ==
    /\ unit.kind = "log" /\ unit.pc = "iterating"
    /\ Len(unit.yielded) = Len(unit.source)
    /\ unit.ends = "raises"
    /\ unit' = LogFinally(unit, "source exception")
    /\ UNCHANGED mainVars

LogNext == LogYield \/ LogExhausted \/ LogRaised

LogSpec == LogInit /\ [][LogNext]_vars

=============================================================================
